---- MODULE Spec2Model ----
(***************************************************************************)
(* State-machine model of two classes of the ROOT framework:               *)
(*   gui/inc/TGLabel.h                       (TGLabel)                     *)
(*   roofit/roofit/inc/RooLagrangianMorphFunc.h (RooLagrangianMorphFunc    *)
(*                                            and its nested Config)       *)
(* The inline member functions of the two headers are translated from the  *)
(* header text.  Member functions that the headers only declare are        *)
(* modelled from their documented behaviour so that the inline ones have   *)
(* states to act on.                                                       *)
(***************************************************************************)
EXTENDS Integers, Sequences, FiniteSets, TLC

VARIABLES
    label,      \* the TGLabel object: its data members (TGLabel.h 39-46)
    _config,    \* RooLagrangianMorphFunc::_config (Config members 143-157)
    _scale,     \* RooLagrangianMorphFunc::_scale
    op,         \* name of the member function that ran last
    arg,        \* the argument it was called with
    ret         \* the value it returned

vars == <<label, _config, _scale, op, arg, ret>>

(***************************************************************************)
(* Bounds                                                                  *)
(***************************************************************************)
MaxLen == 2          \* longest const char* text passed to the label
MaxFolders == 3      \* longest list of folder names kept by a Config
MaxList == 2         \* longest RooArgList of folders passed in one call

NoValue == "none"

(***************************************************************************)
(* TGString and the windowing primitives used by the label                 *)
(***************************************************************************)
Chars == {"a", "1", "2"}

RECURSIVE SeqsUpTo(_, _)
SeqsUpTo(S, n) ==
    IF n = 0 THEN {<<>>}
    ELSE LET shorter == SeqsUpTo(S, n - 1)
         IN  shorter \cup {Append(s, c) : s \in shorter, c \in S}

\* the texts a caller passes as const char*
CStrings == SeqsUpTo(Chars, MaxLen)

\* the numbers a caller passes as Int_t
Numbers == {-12, -1, 0, 2, 12, 2147483647}

DigitChar(d) ==
    CASE d = 0 -> "0" [] d = 1 -> "1" [] d = 2 -> "2" [] d = 3 -> "3"
      [] d = 4 -> "4" [] d = 5 -> "5" [] d = 6 -> "6" [] d = 7 -> "7"
      [] d = 8 -> "8" [] d = 9 -> "9"

RECURSIVE Digits(_)
Digits(n) ==
    IF n < 10 THEN <<DigitChar(n)>>
    ELSE Append(Digits(n \div 10), DigitChar(n % 10))

\* TGString(const char*): the characters of the C string
TGStringChars(s) == s

\* TGString(Int_t): the number printed in decimal ("%d")
TGStringInt(n) == IF n < 0 THEN <<"-">> \o Digits(-n) ELSE Digits(n)

\* the TGString objects a caller can hand to SetText(TGString*)
TGStrings == {TGStringChars(s) : s \in CStrings} \cup {TGStringInt(n) : n \in Numbers}

\* font handles (FontStruct_t) and graphics contexts (GContext_t)
Fonts == {"fontA", "fontB"}
DefaultFont == "fontA"
DefaultGC == "gcDefault"
OwnGC(font) == <<"gcOwn", font>>

CharWidth(font) == IF font = "fontA" THEN 6 ELSE 9
MaxAscent(font) == IF font = "fontA" THEN 10 ELSE 14
MaxDescent(font) == IF font = "fontA" THEN 3 ELSE 4

\* gVirtualX->TextWidth(font, string, length)
TextWidth(font, str) == Len(str) * CharWidth(font)
\* max_ascent + max_descent of gVirtualX->GetFontProperties
TextHeight(font) == MaxAscent(font) + MaxDescent(font)

\* the justification modes a caller passes as Int_t
TModes == {-2147483647 - 1, -1, 0, 1, 36, 2147483647}

(***************************************************************************)
(* TGLabel                                                                 *)
(***************************************************************************)
\* TGLabel(p, text, norm, font, options, back) with the default GC and font
NewLabel(text) ==
    [fText        |-> text,
     fTWidth      |-> TextWidth(DefaultFont, text),
     fTHeight     |-> TextHeight(DefaultFont),
     fTMode       |-> 36,             \* kTextCenterX | kTextCenterY
     fTextChanged |-> TRUE,
     fNormGC      |-> DefaultGC,
     fFontStruct  |-> DefaultFont,
     fHasOwnFont  |-> FALSE]

\* TGDimension(w, h)
TGDimension(w, h) == [fWidth |-> w, fHeight |-> h]

\* mutant of GetDefaultSize: the height without the extra pixel
GetDefaultSizeNoPad(l) == TGDimension(l.fTWidth, l.fTHeight)

\* virtual TGDimension GetDefaultSize() const
GetDefaultSize(l) == TGDimension(l.fTWidth, l.fTHeight + 1)

\* virtual void SetText(TGString *newText): replaces the text, measures it
\* with the current font and marks the label for redrawing
SetTextTGString(l, newText) ==
    [l EXCEPT !.fText        = newText,
              !.fTextChanged = TRUE,
              !.fTWidth      = TextWidth(l.fFontStruct, newText),
              !.fTHeight     = TextHeight(l.fFontStruct)]

\* mutant of SetTextCharPtr: stores the text itself, without measuring it
SetTextCharPtrNoMeasure(l, newText) ==
    [l EXCEPT !.fText = TGStringChars(newText), !.fTextChanged = TRUE]

\* void SetText(const char *newText) { SetText(new TGString(newText)); }
SetTextCharPtr(l, newText) == SetTextTGString(l, TGStringChars(newText))

\* void SetText(Int_t number) { SetText(new TGString(number)); }
SetTextInt(l, number) == SetTextTGString(l, TGStringInt(number))

\* mutant of SetTextJustify: also asks for a redraw
SetTextJustifyRedraw(l, tmode) ==
    [l EXCEPT !.fTMode = tmode, !.fTextChanged = TRUE]

\* void SetTextJustify(Int_t tmode) { fTMode = tmode; }
SetTextJustify(l, tmode) == [l EXCEPT !.fTMode = tmode]

\* virtual void SetTextFont(FontStruct_t font, Bool_t global)
SetTextFont(l, font, global) ==
    [l EXCEPT !.fFontStruct  = font,
              !.fHasOwnFont  = IF global THEN l.fHasOwnFont ELSE TRUE,
              !.fNormGC      = IF global THEN l.fNormGC ELSE OwnGC(font),
              !.fTWidth      = TextWidth(font, l.fText),
              !.fTHeight     = TextHeight(font),
              !.fTextChanged = TRUE]

\* virtual void DoRedraw(): draws the text and clears the changed flag
DoRedraw(l) == [l EXCEPT !.fTextChanged = FALSE]

(***************************************************************************)
(* RooLagrangianMorphFunc and RooLagrangianMorphFunc::Config               *)
(***************************************************************************)
FolderNameValues == {"", "s1", "s2"}
FolderLists == SeqsUpTo(FolderNameValues, MaxList)
ScaleValues == {1, 2, 5}

RECURSIVE NonEmptyNames(_)
NonEmptyNames(list) ==
    IF list = <<>> THEN <<>>
    ELSE IF Head(list) = "" THEN NonEmptyNames(Tail(list))
         ELSE <<Head(list)>> \o NonEmptyNames(Tail(list))

RECURSIVE Range(_)
Range(s) == IF s = <<>> THEN {} ELSE {Head(s)} \cup Range(Tail(s))

\* Config::Config()
NewConfig ==
    [_folderlist  |-> <<>>,
     _folderNames |-> <<>>,
     _paramCards  |-> {}]

\* void Config::setFolders(const RooArgList &folderlist)
ConfigSetFolders(c, folderlist) ==
    [c EXCEPT !._folderlist = c._folderlist \o folderlist]

\* void Config::addFolders(const RooArgList &folders): appends the name of
\* every folder that has one
ConfigAddFolders(c, folders) ==
    [c EXCEPT !._folderNames = c._folderNames \o NonEmptyNames(folders)]

\* void Config::readParameters(TDirectory *f): one parameter card per sample
ConfigReadParameters(c) ==
    [c EXCEPT !._paramCards = Range(c._folderNames)]

\* RooArgList const& getFolders() const { return this->_folderlist; }
getFolders(c) == c._folderlist

\* std::vector<std::string> const& getFolderNames() const { return _folderNames; }
getFolderNames(c) == c._folderNames

\* int Config::nSamples() const { return this->_folderNames.size(); }
ConfigNSamples(c) == Len(c._folderNames)

\* mutant of nSamples: counts the folder list handed to setFolders
nSamplesOfFolderList == Len(getFolders(_config))

\* int nSamples() const {return this->_config.getFolderNames().size(); }
nSamples == Len(getFolderNames(_config))

\* mutant of selfNormalized: true only for the unit scale
selfNormalizedUnitScale == (_scale = 1)

\* Bool_t selfNormalized() const { return true; }
selfNormalized == TRUE

(***************************************************************************)
(* Initial states                                                          *)
(***************************************************************************)
\* a label constructed from any text; a default-constructed morphing function
InitLabel ==
    /\ label \in {NewLabel(t) : t \in TGStrings}
    /\ _config = NewConfig
    /\ _scale = 1
    /\ op = "constructor"
    /\ arg = NoValue
    /\ ret = NoValue

\* a morphing function constructed from any Config a caller built with
\* setFolders: the constructor copies it and adds its folders
InitMorph ==
    /\ label = NewLabel(<<>>)
    /\ \E fl \in FolderLists :
          _config = ConfigAddFolders(ConfigSetFolders(NewConfig, fl), fl)
    /\ _scale = 1
    /\ op = "constructor"
    /\ arg = NoValue
    /\ ret = NoValue

(***************************************************************************)
(* Actions: one per member function                                        *)
(***************************************************************************)
morphVars == <<_config, _scale>>

CallGetDefaultSize ==
    /\ op' = "GetDefaultSize"
    /\ arg' = NoValue
    /\ ret' = GetDefaultSize(label)
    /\ UNCHANGED <<label, morphVars>>

CallSetTextTGString ==
    \E t \in TGStrings :
        /\ label' = SetTextTGString(label, t)
        /\ op' = "SetTextTGString"
        /\ arg' = t
        /\ ret' = NoValue
        /\ UNCHANGED morphVars

CallSetTextCharPtr ==
    \E s \in CStrings :
        /\ label' = SetTextCharPtr(label, s)
        /\ op' = "SetTextCharPtr"
        /\ arg' = s
        /\ ret' = NoValue
        /\ UNCHANGED morphVars

CallSetTextInt ==
    \E n \in Numbers :
        /\ label' = SetTextInt(label, n)
        /\ op' = "SetTextInt"
        /\ arg' = n
        /\ ret' = NoValue
        /\ UNCHANGED morphVars

CallSetTextJustify ==
    \E tmode \in TModes :
        /\ label' = SetTextJustify(label, tmode)
        /\ op' = "SetTextJustify"
        /\ arg' = tmode
        /\ ret' = NoValue
        /\ UNCHANGED morphVars

CallSetTextFont ==
    \E font \in Fonts, global \in BOOLEAN :
        /\ label' = SetTextFont(label, font, global)
        /\ op' = "SetTextFont"
        /\ arg' = <<font, global>>
        /\ ret' = NoValue
        /\ UNCHANGED morphVars

CallDoRedraw ==
    /\ label' = DoRedraw(label)
    /\ op' = "DoRedraw"
    /\ arg' = NoValue
    /\ ret' = NoValue
    /\ UNCHANGED morphVars

\* void RooLagrangianMorphFunc::addFolders(const RooArgList &folders)
CallAddFolders ==
    \E folders \in FolderLists :
        /\ Len(_config._folderNames) + Len(folders) <= MaxFolders
        /\ _config' = ConfigAddFolders(_config, folders)
        /\ op' = "addFolders"
        /\ arg' = folders
        /\ ret' = NoValue
        /\ UNCHANGED <<label, _scale>>

\* void readParameters(TDirectory *f) { _config.readParameters(f); }
CallReadParameters ==
    /\ _config' = ConfigReadParameters(_config)
    /\ op' = "readParameters"
    /\ arg' = NoValue
    /\ ret' = NoValue
    /\ UNCHANGED <<label, _scale>>

\* void setScale(double val)
CallSetScale ==
    \E val \in ScaleValues :
        /\ _scale' = val
        /\ op' = "setScale"
        /\ arg' = val
        /\ ret' = NoValue
        /\ UNCHANGED <<label, _config>>

CallNSamples ==
    /\ op' = "nSamples"
    /\ arg' = NoValue
    /\ ret' = nSamples
    /\ UNCHANGED <<label, morphVars>>

CallSelfNormalized ==
    /\ op' = "selfNormalized"
    /\ arg' = NoValue
    /\ ret' = selfNormalized
    /\ UNCHANGED <<label, morphVars>>

NextLabel ==
    \/ CallGetDefaultSize
    \/ CallSetTextTGString
    \/ CallSetTextCharPtr
    \/ CallSetTextInt
    \/ CallSetTextJustify
    \/ CallSetTextFont
    \/ CallDoRedraw

NextMorph ==
    \/ CallAddFolders
    \/ CallReadParameters
    \/ CallSetScale
    \/ CallNSamples
    \/ CallSelfNormalized

SpecLabel == InitLabel /\ [][NextLabel]_vars

SpecMorph == InitMorph /\ [][NextMorph]_vars

(***************************************************************************)
(* Properties                                                              *)
(***************************************************************************)

\* C2: GetDefaultSize() returns a dimension whose width is the stored text
\* width fTWidth and whose height is the stored text height fTHeight plus one.
C2_DefaultSize ==
    op = "GetDefaultSize" =>
        /\ ret.fWidth = label.fTWidth
        /\ ret.fHeight = label.fTHeight + 1

C2_Witness ==
    /\ op = "GetDefaultSize"
    /\ label.fFontStruct = "fontB"
    /\ label.fTWidth > 0
    /\ ret = TGDimension(label.fTWidth, TextHeight("fontB") + 1)

\* C3: SetText(const char*) and SetText(Int_t) take the label from any state
\* to exactly the state that SetText(TGString*) reaches from that same state
\* when given a new TGString built from the argument; nothing else changes.
C3_OverloadsDelegate ==
    [][ /\ op' = "SetTextCharPtr" =>
              label' = SetTextTGString(label, TGStringChars(arg'))
        /\ op' = "SetTextInt" =>
              label' = SetTextTGString(label, TGStringInt(arg')) ]_vars

C3_Witness ==
    /\ op = "SetTextInt"
    /\ arg = -12
    /\ label.fText = <<"-", "1", "2">>
    /\ label.fFontStruct = "fontB"
    /\ label.fTWidth = 3 * CharWidth("fontB")
    /\ label.fTMode = -1

\* C4: in every reachable state RooLagrangianMorphFunc::nSamples() equals the
\* nSamples() of its Config, and both equal the number of folder names stored
\* in that Config; a call of nSamples() returns that number.
C4_NSamplesAgree ==
    /\ nSamples = ConfigNSamples(_config)
    /\ nSamples = Len(_config._folderNames)
    /\ ConfigNSamples(_config) = Len(getFolderNames(_config))
    /\ op = "nSamples" => ret = Len(_config._folderNames)

C4_Witness ==
    /\ op = "nSamples"
    /\ ret = MaxFolders
    /\ Len(_config._folderNames) = MaxFolders
    /\ Len(_config._folderlist) < MaxFolders

\* C5: selfNormalized() returns true whatever the scale, samples and
\* parameters are, and the call changes no state of the function.
C5_SelfNormalized ==
    [][ op' = "selfNormalized" =>
            /\ ret' = TRUE
            /\ _config' = _config
            /\ _scale' = _scale
            /\ label' = label ]_vars

C5_Witness ==
    /\ op = "selfNormalized"
    /\ ret = TRUE
    /\ _scale = 5
    /\ Len(_config._folderNames) = 2
    /\ _config._paramCards # {}

\* C7: SetTextJustify(tmode) sets fTMode to tmode and leaves the text, the
\* text width and height, the graphics context, the font, the own-font flag
\* and the text-changed flag as they were.
C7_JustifyFrame ==
    [][ op' = "SetTextJustify" =>
            /\ label'.fTMode = arg'
            /\ label'.fText = label.fText
            /\ label'.fTWidth = label.fTWidth
            /\ label'.fTHeight = label.fTHeight
            /\ label'.fNormGC = label.fNormGC
            /\ label'.fFontStruct = label.fFontStruct
            /\ label'.fHasOwnFont = label.fHasOwnFont
            /\ label'.fTextChanged = label.fTextChanged ]_vars

C7_Witness ==
    /\ op = "SetTextJustify"
    /\ arg = -2147483647 - 1
    /\ label.fTMode = -2147483647 - 1
    /\ label.fTextChanged = FALSE
    /\ label.fHasOwnFont = TRUE
    /\ label.fText # <<>>

====
